---- MODULE Spec2Model ----
(***************************************************************************)
(* EnhancedEnum (enhanced_enums.py): the convenience methods added on top  *)
(* of Python's Enum.  A concrete enumeration is a class body, a sequence   *)
(* of NAME = value attributes; the Enum machinery turns it into the class  *)
(* state the methods read (_member_names_, _member_map_,                   *)
(* _value2member_map_).  Every method is modelled as one call by a caller  *)
(* who keeps the outcome of the last call (ret), a list obtained from an   *)
(* earlier list_all() (held) and the results of its latest chained         *)
(* next()/previous() calls (walk).                                         *)
(***************************************************************************)
EXTENDS Integers, Sequences, FiniteSets

\* ---------------------------------------------------------------- bounds
\* Largest number of attributes in a class body.
MaxDecl == 3
\* Integer member values are 1..MaxInt.
MaxInt == 2

\* ---------------------------------------------------------------- values
\* A Python value: an int (hashable), a one-element list [v] (unhashable),
\* or a member object passed where a raw value is expected (hashable, equal
\* only to itself).
IntVal(i) == [kind |-> "int", v |-> i]
ListVal(i) == [kind |-> "list", v |-> i]
MemberObj(i) == [kind |-> "member", v |-> i]
NoValue == [kind |-> "none", v |-> 0]

\* hash(value): lists raise TypeError, everything else here hashes.
hashable(value) == value.kind # "list"

\* Values a class body may assign.
DeclValues == {IntVal(i) : i \in 1..MaxInt} \cup {ListVal(1)}

\* Attribute names, in the order a class body of that length declares them.
AttrNames == <<"RED", "GREEN", "BLUE", "red", "RE">>

\* Names a caller may look up: every attribute name and one never declared.
LookupNames == {AttrNames[i] : i \in 1..Len(AttrNames)} \cup {"YELLOW"}

NoMember == [name |-> "", value |-> NoValue]

VARIABLES decl, member_names, member_map, value2member_map, ret, held, walk

vars == <<decl, member_names, member_map, value2member_map, ret, held, walk>>
classvars == <<decl, member_names, member_map, value2member_map>>

\* ------------------------------------------------- class construction
\* The class bodies: 1..MaxDecl attributes with distinct names.
ClassBodies ==
    UNION {[1..k -> DeclValues] : k \in 1..MaxDecl}

Body(vals) == [i \in 1..Len(vals) |-> [name |-> AttrNames[i], value |-> vals[i]]]

\* Enum's metaclass: an attribute whose value equals the value of an
\* earlier member is an alias of that member, not a new member.
RECURSIVE Canonical(_, _)
Canonical(d, k) ==
    IF k = 0 THEN <<>>
    ELSE LET prev == Canonical(d, k - 1)
             e == d[k]
         IN  IF \E i \in 1..Len(prev) : prev[i].value = e.value
             THEN prev
             ELSE Append(prev, [name |-> e.name, value |-> e.value])

Range(s) == {s[i] : i \in 1..Len(s)}

\* _member_names_: the names of the canonical members, in definition order.
MemberNames(d) ==
    LET c == Canonical(d, Len(d)) IN [i \in 1..Len(c) |-> c[i].name]

\* _member_map_: every declared name, aliases included, to its member.
MemberMap(d) ==
    LET c == Canonical(d, Len(d))
    IN  [nm \in {d[i].name : i \in 1..Len(d)} |->
            LET val == (CHOOSE i \in 1..Len(d) : d[i].name = nm) IN
            CHOOSE m \in Range(c) : m.value = d[val].value]

\* _value2member_map_: the hashable member values to their members.
Value2MemberMap(d) ==
    LET c == Canonical(d, Len(d))
    IN  [val \in {m.value : m \in {x \in Range(c) : hashable(x.value)}} |->
            CHOOSE m \in Range(c) : m.value = val]

\* ------------------------------------------------------------ outcomes
\* What a call produced: a returned value of some type, or a raised
\* exception with the key its message carries.
Nothing ==
    [kind |-> "return", type |-> "none", member |-> NoMember, bool |-> FALSE,
     seq |-> <<>>, text |-> "", msg_name |-> "", msg_value |-> NoValue]

ReturnMember(m) == [Nothing EXCEPT !.type = "member", !.member = m]
ReturnBool(b) == [Nothing EXCEPT !.type = "bool", !.bool = b]
ReturnList(s) == [Nothing EXCEPT !.type = "list", !.seq = s]
ReturnTuple(s) == [Nothing EXCEPT !.type = "tuple", !.seq = s]
ReturnStr(t) == [Nothing EXCEPT !.type = "str", !.text = t]
RaiseNameError(nm) == [Nothing EXCEPT !.kind = "ValueError", !.msg_name = nm]
RaiseValueError(val) == [Nothing EXCEPT !.kind = "ValueError", !.msg_value = val]
\* TypeError: unhashable type; its message names the type, not the value.
RaiseTypeError == [Nothing EXCEPT !.kind = "TypeError"]

\* ------------------------------------------------------------- methods
\* Iterating the class: the canonical members in definition order.
iter_cls == [i \in 1..Len(member_names) |-> member_map[member_names[i]]]

\* list.index(x), 0-based: the first position holding x.
index_of(members, x) ==
    (CHOOSE i \in 1..Len(members) :
        /\ members[i] = x
        /\ \A j \in 1..(i - 1) : members[j] # x) - 1

\* members[index] with a 0-based index.
item(members, index) == members[index + 1]

__str__(m) == m.name

list_all_by_value ==
    LET members == iter_cls
        key(m) == 2 * m.value.v + (IF m.value.kind = "list" THEN 1 ELSE 0)
        rank(m) == Cardinality({x \in Range(members) : key(x) < key(m)})
    IN  ReturnList([i \in 1..Len(members) |->
            CHOOSE m \in Range(members) : rank(m) = i - 1])

list_all == ReturnList(iter_cls)

as_tuple == ReturnTuple(iter_cls)

validate(value) ==
    IF ~hashable(value) THEN RaiseTypeError
    ELSE ReturnBool(value \in DOMAIN value2member_map)

next_no_wrap(m) ==
    LET members == iter_cls
        index == index_of(members, m) + 1
    IN  item(members, IF index >= Len(members) THEN Len(members) - 1 ELSE index)

next(m) ==
    LET members == iter_cls
        index == index_of(members, m) + 1
    IN  item(members, IF index >= Len(members) THEN 0 ELSE index)

previous_no_wrap(m) ==
    LET members == iter_cls
        index == index_of(members, m) - 1
    IN  item(members, IF index < 0 THEN 0 ELSE index)

previous(m) ==
    LET members == iter_cls
        index == index_of(members, m) - 1
    IN  item(members, IF index < 0 THEN Len(members) - 1 ELSE index)

\* str.upper() on the names in play.
upper(s) ==
    CASE s = "red" -> "RED"
      [] s = "re" -> "RE"
      [] OTHER -> s

from_string_any_case(name) ==
    IF name \in DOMAIN member_map THEN ReturnMember(member_map[name])
    ELSE IF \E k \in DOMAIN member_map : upper(k) = upper(name)
         THEN ReturnMember(member_map[CHOOSE k \in DOMAIN member_map :
                                          upper(k) = upper(name)])
         ELSE RaiseNameError(name)

from_string(name) ==
    IF name \in DOMAIN member_map THEN ReturnMember(member_map[name])
    ELSE RaiseNameError(name)

from_value_by_map(value) ==
    IF hashable(value) /\ value \in DOMAIN value2member_map
    THEN ReturnMember(value2member_map[value])
    ELSE RaiseValueError(value)

from_value_no_raise(value) ==
    LET members == iter_cls
        hits == {i \in 1..Len(members) : members[i].value = value}
    IN  IF hits # {}
        THEN ReturnMember(members[CHOOSE i \in hits : \A j \in hits : i <= j])
        ELSE Nothing

from_value(value) ==
    LET members == iter_cls
        hits == {i \in 1..Len(members) : members[i].value = value}
    IN  IF hits # {}
        THEN ReturnMember(members[CHOOSE i \in hits : \A j \in hits : i <= j])
        ELSE RaiseValueError(value)

\* ------------------------------------------------------------- caller
\* Raw values a caller may pass: every value a body may assign, an int no
\* member has, and a member object.
LookupValues == DeclValues \cup {IntVal(MaxInt + 1), MemberObj(1)}

\* A call: the method, its receiver (for a method of a member), its
\* argument and its outcome.
Call(op, recv, name, value, out) ==
    [op |-> op, recv |-> recv, name |-> name, value |-> value, out |-> out]

NoWalk == [start |-> NoMember, trail |-> <<>>]

\* The caller's member before the k-th call recorded in walk.
Before(k) == IF k = 1 THEN walk.start ELSE walk.trail[k - 1].member

\* Every call recorded in walk went in direction dir.
AllDir(dir) == \A k \in 1..Len(walk.trail) : walk.trail[k].dir = dir

\* walk after the call m.next() or m.previous() (dir) returned r.  Calls
\* are chained when m is the result of the call before.  walk holds the
\* current chain of calls in one direction, up to Len(member_names) of
\* them, or the last two chained calls when they went in different
\* directions.
Step(dir, m, r) ==
    LET t == walk.trail
        len == Len(t)
        new == [dir |-> dir, member |-> r]
        fresh == [start |-> m, trail |-> <<new>>]
    IN  IF t = <<>> \/ t[len].member # m THEN fresh
        ELSE IF t[len].dir # dir
             THEN [start |-> Before(len), trail |-> <<t[len], new>>]
             ELSE IF AllDir(dir) /\ len < Len(member_names)
                  THEN [walk EXCEPT !.trail = Append(@, new)]
                  ELSE fresh

Init ==
    /\ \E vals \in ClassBodies :
        /\ decl = Body(vals)
        /\ member_names = MemberNames(Body(vals))
        /\ member_map = MemberMap(Body(vals))
        /\ value2member_map = Value2MemberMap(Body(vals))
    /\ ret = Call("none", NoMember, "", NoValue, Nothing)
    /\ held = [got |-> FALSE, items |-> <<>>]
    /\ walk = NoWalk

CallStr ==
    /\ \E m \in Range(iter_cls) :
        ret' = Call("__str__", m, "", NoValue, ReturnStr(__str__(m)))
    /\ walk' = NoWalk
    /\ UNCHANGED <<classvars, held>>

\* The caller may keep the returned list for later.
CallListAll ==
    /\ ret' = Call("list_all", NoMember, "", NoValue, list_all)
    /\ \E keep \in BOOLEAN :
        held' = IF keep THEN [got |-> TRUE, items |-> list_all.seq] ELSE held
    /\ walk' = NoWalk
    /\ UNCHANGED classvars

CallAsTuple ==
    /\ ret' = Call("as_tuple", NoMember, "", NoValue, as_tuple)
    /\ walk' = NoWalk
    /\ UNCHANGED <<classvars, held>>

CallValidate ==
    /\ \E value \in LookupValues :
        ret' = Call("validate", NoMember, "", value, validate(value))
    /\ walk' = NoWalk
    /\ UNCHANGED <<classvars, held>>

CallNext ==
    /\ \E m \in Range(iter_cls) :
        /\ ret' = Call("next", m, "", NoValue, ReturnMember(next(m)))
        /\ walk' = Step("next", m, next(m))
    /\ UNCHANGED <<classvars, held>>

CallPrevious ==
    /\ \E m \in Range(iter_cls) :
        /\ ret' = Call("previous", m, "", NoValue, ReturnMember(previous(m)))
        /\ walk' = Step("previous", m, previous(m))
    /\ UNCHANGED <<classvars, held>>

CallFromString ==
    /\ \E name \in LookupNames :
        ret' = Call("from_string", NoMember, name, NoValue, from_string(name))
    /\ walk' = NoWalk
    /\ UNCHANGED <<classvars, held>>

CallFromValue ==
    /\ \E value \in LookupValues :
        ret' = Call("from_value", NoMember, "", value, from_value(value))
    /\ walk' = NoWalk
    /\ UNCHANGED <<classvars, held>>

\* The caller changes the list it holds, with clear() or with reverse().
CallerClear ==
    /\ held.got /\ Len(held.items) > 0
    /\ held' = [held EXCEPT !.items = <<>>]
    /\ ret' = Call("list.clear", NoMember, "", NoValue, Nothing)
    /\ walk' = NoWalk
    /\ UNCHANGED classvars

CallerReverse ==
    /\ held.got /\ Len(held.items) > 1
    /\ held' = [held EXCEPT !.items = [i \in 1..Len(@) |-> @[Len(@) + 1 - i]]]
    /\ ret' = Call("list.reverse", NoMember, "", NoValue, Nothing)
    /\ walk' = NoWalk
    /\ UNCHANGED classvars

Next ==
    \/ CallStr
    \/ CallListAll
    \/ CallAsTuple
    \/ CallValidate
    \/ CallNext
    \/ CallPrevious
    \/ CallFromString
    \/ CallFromValue
    \/ CallerClear
    \/ CallerReverse

Spec == Init /\ [][Next]_vars

\* ------------------------------------------------------- what is expected
\* The members a class body defines, read off the body itself: one member
\* per attribute whose value no earlier attribute has, in body order.
Firsts == {i \in 1..Len(decl) : \A j \in 1..(i - 1) : decl[j].value # decl[i].value}

ExpectedMembers ==
    [k \in 1..Cardinality(Firsts) |->
        LET i == CHOOSE x \in Firsts : Cardinality({j \in Firsts : j < x}) = k - 1
        IN  [name |-> decl[i].name, value |-> decl[i].value]]

\* The 1-based position of member m in the sequence E.
Pos(E, m) == CHOOSE i \in 1..Len(E) : E[i] = m

\* next() applied k times to m.
RECURSIVE NextTimes(_, _)
NextTimes(m, k) == IF k = 0 THEN m ELSE next(NextTimes(m, k - 1))

\* ------------------------------------------------------------------ C1
\* C1: for every member m of a type with one or more members,
\* m.next().previous() is m and m.previous().next() is m; and a caller who
\* chains next() and then previous(), or previous() and then next(), gets
\* the member it started from.
NextPreviousInverse ==
    /\ \A m \in Range(ExpectedMembers) :
        /\ previous(next(m)) = m
        /\ next(previous(m)) = m
    /\ \A k \in 1..(Len(walk.trail) - 1) :
        walk.trail[k].dir # walk.trail[k + 1].dir
            => walk.trail[k + 1].member = Before(k)

\* C1 witness: next() moved the caller to another member and previous()
\* then brought it back.
NextThenPreviousDone ==
    /\ Len(walk.trail) >= 2
    /\ walk.trail[1].dir = "next"
    /\ walk.trail[2].dir = "previous"
    /\ walk.trail[1].member # walk.start
    /\ walk.trail[2].member = walk.start

\* ------------------------------------------------------------------ C2
\* C2: with n members, next() of the member at 0-based position i is the
\* member at i+1 when i < n-1 and the first member when i = n-1;
\* previous() is the member at i-1 when i > 0 and the last member when
\* i = 0; every call made returned exactly that member.
CyclicNeighbours ==
    LET E == ExpectedMembers
        n == Len(E)
        succ(m) == IF Pos(E, m) - 1 < n - 1 THEN E[Pos(E, m) + 1] ELSE E[1]
        pred(m) == IF Pos(E, m) - 1 > 0 THEN E[Pos(E, m) - 1] ELSE E[n]
    IN  /\ \A m \in Range(E) : next(m) = succ(m) /\ previous(m) = pred(m)
        /\ \A k \in 1..Len(walk.trail) :
            walk.trail[k].member =
                IF walk.trail[k].dir = "next" THEN succ(Before(k)) ELSE pred(Before(k))
        /\ ret.op \in {"next", "previous"} =>
            /\ ret.out.kind = "return"
            /\ ret.out.type = "member"
            /\ ret.out.member = walk.trail[Len(walk.trail)].member
            /\ ret.recv = Before(Len(walk.trail))

\* C2 witness: in the type RED, GREEN, BLUE the call RED.previous() has
\* returned BLUE.
RedPreviousIsBlue ==
    /\ member_names = <<"RED", "GREEN", "BLUE">>
    /\ ret.op = "previous"
    /\ Len(walk.trail) = 1
    /\ walk.start.name = "RED"
    /\ ret.out.member.name = "BLUE"

\* ----------------------------------------------------------------- C10
\* C10: in a type with n members, the first n results of repeated next()
\* from a member m are pairwise different, none before the n-th is m, the
\* n-th is m and together they are all the members; the same holds for
\* repeated previous(), whose k-th result is the (n-k)-th result of next().
SingleCycle ==
    LET n == Len(ExpectedMembers)
        t == walk.trail
    IN  (t # <<>> /\ (AllDir("next") \/ AllDir("previous"))) =>
            /\ \A j, k \in 1..Len(t) : j < k => t[j].member # t[k].member
            /\ \A k \in 1..Len(t) : k < n => t[k].member # walk.start
            /\ Len(t) = n =>
                /\ t[n].member = walk.start
                /\ {t[k].member : k \in 1..n} = Range(ExpectedMembers)
            /\ AllDir("previous") =>
                \A k \in 1..Len(t) : t[k].member = NextTimes(walk.start, n - k)

\* C10 witness: three next() calls in a three-member type came back to
\* the member they started from.
FullCycleDone ==
    /\ Len(ExpectedMembers) = 3
    /\ Len(walk.trail) = 3
    /\ AllDir("next")
    /\ walk.trail[3].member = walk.start


\* The names the class body declares, and the member the body's first
\* attribute with value val defines.
DeclaredNames == {decl[i].name : i \in 1..Len(decl)}

FirstWith(val) ==
    LET i == CHOOSE x \in 1..Len(decl) :
                 /\ decl[x].value = val
                 /\ \A j \in 1..(x - 1) : decl[j].value # val
    IN  [name |-> decl[i].name, value |-> decl[i].value]

ValueOfName(nm) == decl[CHOOSE i \in 1..Len(decl) : decl[i].name = nm].value

\* ------------------------------------------------------------------ C3
\* C3 as stated: from_string(name) returns the member whose name is exactly
\* name, and for every name that is not the name of a member it raises
\* ValueError carrying the name and returns no member.
FromStringByMemberName ==
    ret.op = "from_string" =>
        IF \E m \in Range(ExpectedMembers) : m.name = ret.name
        THEN /\ ret.out.kind = "return"
             /\ ret.out.member.name = ret.name
        ELSE /\ ret.out.kind = "ValueError"
             /\ ret.out.msg_name = ret.name
             /\ ret.out.member = NoMember

\* C3 amended: from_string(name) returns the member the class body binds
\* to exactly that name (for a name declared with a value an earlier
\* attribute has, that earlier member, whose own name differs), and for
\* every name the body does not declare, also one that differs from a
\* declared name only in case or is a prefix of one, it raises ValueError
\* carrying the name and returns no member.
FromStringByDeclaredName ==
    /\ \A name \in LookupNames :
        from_string(name) =
            IF name \in DeclaredNames
            THEN ReturnMember(FirstWith(ValueOfName(name)))
            ELSE RaiseNameError(name)
    /\ ret.op = "from_string" => ret.out = from_string(ret.name)

\* C3 witness: "red" was looked up in a type that declares RED and not red,
\* and the lookup raised ValueError carrying "red".
WrongCaseRejected ==
    /\ ret.op = "from_string"
    /\ ret.name = "red"
    /\ "RED" \in DeclaredNames
    /\ "red" \notin DeclaredNames
    /\ ret.out.kind = "ValueError"
    /\ ret.out.msg_name = "red"

\* ------------------------------------------------------------------ C4
\* C4: from_value(v) returns the member of the first attribute in the
\* class body whose value equals v, also when several attributes have that
\* value; when no attribute has the value it raises ValueError carrying v.
FromValueFirstMatch ==
    /\ \A value \in LookupValues :
        from_value(value) =
            IF \E i \in 1..Len(decl) : decl[i].value = value
            THEN ReturnMember(FirstWith(value))
            ELSE RaiseValueError(value)
    /\ ret.op = "from_value" => ret.out = from_value(ret.value)

\* C4 witness: a value that two attributes share was looked up and the
\* member of the first of them came back.
SharedValueLookedUp ==
    /\ ret.op = "from_value"
    /\ \E i, j \in 1..Len(decl) :
        /\ i < j
        /\ decl[i].value = ret.value
        /\ decl[j].value = ret.value
        /\ \A h \in 1..(i - 1) : decl[h].value # ret.value
        /\ ret.out.kind = "return"
        /\ ret.out.member.name = decl[i].name

\* ------------------------------------------------------------------ C5
\* C5 as stated: for every raw value v, validate(v) returns true if v
\* equals the value of some member and returns false otherwise.
ValidateIffMemberValue ==
    ret.op = "validate" =>
        ret.out = ReturnBool(\E m \in Range(ExpectedMembers) : m.value = ret.value)

\* ------------------------------------------------------------------ C6
\* C6 as stated: the only error is the ValueError of from_string and
\* from_value for a key no member matches; validate returns a boolean for
\* every input and the other methods never fail.
OnlyNotFoundErrors ==
    /\ ret.out.kind # "return" =>
        /\ ret.out.kind = "ValueError"
        /\ ret.op \in {"from_string", "from_value"}
        /\ ret.op = "from_string" => ret.name \notin DeclaredNames
        /\ ret.op = "from_value" => \A i \in 1..Len(decl) : decl[i].value # ret.value
    /\ ret.op = "validate" => ret.out.kind = "return" /\ ret.out.type = "bool"

\* ------------------------------------------------------------------ C7
\* C7: in a type whose attribute values are all different, for every
\* member m, from_string(m.name) and from_value(m.value) return m, and
\* neither raises.
RoundTrip ==
    (\A i, j \in 1..Len(decl) : decl[i].value = decl[j].value => i = j) =>
        /\ \A m \in Range(ExpectedMembers) :
            /\ from_string(m.name) = ReturnMember(m)
            /\ from_value(m.value) = ReturnMember(m)
        /\ (ret.op = "from_value" /\ \E m \in Range(ExpectedMembers) : m.value = ret.value)
            => ret.out.kind = "return" /\ ret.out.member.value = ret.value
        /\ (ret.op = "from_string" /\ \E m \in Range(ExpectedMembers) : m.name = ret.name)
            => ret.out.kind = "return" /\ ret.out.member.name = ret.name

\* C7 witness: in a type of three members with different values, one of
\* them a list, the member with the list value was found by its value.
ListValueFound ==
    /\ Len(decl) = 3
    /\ \A i, j \in 1..Len(decl) : decl[i].value = decl[j].value => i = j
    /\ ret.op = "from_value"
    /\ ret.value = ListVal(1)
    /\ ret.out.kind = "return"
    /\ ret.out.member.value = ListVal(1)

\* ------------------------------------------------------------------ C8
\* C8: whatever calls came before, and whatever the caller did to a list
\* an earlier list_all() returned, list_all() and as_tuple() return the
\* members of the type in body order, the same elements at the same
\* positions in both, and the class state is the one built from the body.
ListingsStable ==
    /\ list_all = ReturnList(ExpectedMembers)
    /\ as_tuple = ReturnTuple(ExpectedMembers)
    /\ \A i \in 1..Len(list_all.seq) : list_all.seq[i] = as_tuple.seq[i]
    /\ ret.op = "list_all" => ret.out = ReturnList(ExpectedMembers)
    /\ ret.op = "as_tuple" => ret.out = ReturnTuple(ExpectedMembers)
    /\ member_names = MemberNames(decl)
    /\ member_map = MemberMap(decl)
    /\ value2member_map = Value2MemberMap(decl)

\* C8 witness: the caller holds a list from an earlier list_all() that it
\* has changed, and the list_all() call made after that returned all the
\* members in body order.
ListAllAfterCallerChange ==
    /\ held.got
    /\ held.items # ExpectedMembers
    /\ Len(ExpectedMembers) >= 2
    /\ ret.op = "list_all"
    /\ ret.out.seq = ExpectedMembers

\* ------------------------------------------------------------------ C9
\* C9 as stated: for every raw value v, validate(v) returns true exactly
\* when from_value(v) returns a member and returns false exactly when
\* from_value(v) raises ValueError.
ValidateAgreesWithFromValue ==
    ret.op = "validate" =>
        /\ ret.out = ReturnBool(TRUE) <=> from_value(ret.value).kind = "return"
        /\ ret.out = ReturnBool(FALSE) <=> from_value(ret.value).kind = "ValueError"

====
